---- MODULE Spec2Model ----
\* Verification model of bastyon-video-downloader (lib/index.js and bin/cli.js):
\* reference normalisation, post resolution, candidate selection, output naming, the
\* CLI pipeline and the transfer engine (downloadFile, one call or two at once) over a
\* small file system.
EXTENDS Integers, Sequences, FiniteSets, TLC

VARIABLES
    input,      \* parseInput: the raw input string (structured, see Inputs)
    ref,        \* parseInput: the returned {host, id} once parsed
    meta,       \* selectFile: the metadata object
    opts,       \* selectFile: {quality, audioOnly}
    chosen,     \* selectFile: the outcome (pending / value / null / throw)
    alive,      \* the process is running
    pc,         \* downloadFile: each call's position
    outPath,    \* downloadFile: each call's destination path
    total,      \* downloadFile: the declared content-length (0: none)
    body,       \* downloadFile: the chunk lengths the reader has delivered so far
    downloaded, \* downloadFile: the bytes-transferred counter
    ws,         \* downloadFile: each call's write stream (state, open file)
    err,        \* downloadFile: the failure the call is about to re-raise
    dir,        \* file system: path -> inode ("none": absent)
    data,       \* file system: inode -> content, a sequence of chunks
    reports,    \* downloadFile: the counter values report() has printed, in order
    cliPc,      \* bin/cli.js main: its position
    netLog,     \* bin/cli.js main: the requests it has issued, in order
    nameIn,     \* deriveOutputName: its arguments (title fields, chosen candidate)
    outName,    \* deriveOutputName: the returned file name
    resPc,      \* resolveBastyonPost: its position
    txid,       \* resolveBastyonPost: the post identifier
    rpcBody,    \* bastyonRpcCall: the parsed JSON body of the response
    resolved    \* resolveBastyonPost: its completion (a reference or an error)

vars == <<input, ref, meta, opts, chosen, alive, pc, outPath, total, body, downloaded, ws,
          err, reports, dir, data, cliPc, netLog, nameIn, outName, resPc, txid, rpcBody,
          resolved>>

parseVars == <<input, ref>>
selectVars == <<meta, opts, chosen>>
callVars == <<pc, outPath, total, body, downloaded, ws, err, reports>>
fsVars == <<dir, data>>
downloadVars == <<alive, pc, outPath, total, body, downloaded, ws, err, reports, dir, data>>
cliVars == <<cliPc, netLog>>
nameVars == <<nameIn, outName>>
resolveVars == <<resPc, txid, rpcBody, resolved>>

\* ---------------------------------------------------------------- JS values
\* A JS string is a sequence of tokens; null and undefined are their own values.
NullV == [t |-> "null"]
Undef == [t |-> "undefined"]
Str(toks) == [t |-> "str", v |-> toks]

\* JS truthiness of null / undefined / string ('' is falsy).
Truthy(x) == x.t = "str" /\ x.v # <<>>

\* ------------------------------------------------------------------ bounds
MaxPath == 4

\* ------------------------------------------------------- Reference Normalizer
IdxOf(s, tok) == IF \E i \in 1..Len(s) : s[i] = tok
                 THEN CHOOSE i \in 1..Len(s) : s[i] = tok /\ \A j \in 1..(i-1) : s[j] # tok
                 ELSE 0

\* host.replace('http://', 'https://'): the first occurrence only.
ReplaceFirstHttp(s) ==
    LET i == IdxOf(s, "http://")
    IN IF i = 0 THEN s ELSE [s EXCEPT ![i] = "https://"]

\* A variant that leaves a host without a scheme as it is.
ensureHttps_NoPrefix(host) ==
    IF ~Truthy(host) THEN NullV
    ELSE IF Head(host.v) \in {"http://", "https://"} THEN Str(ReplaceFirstHttp(host.v))
    ELSE host

ensureHttps(host) ==
    IF ~Truthy(host) THEN NullV
    ELSE IF Head(host.v) \in {"http://", "https://"} THEN Str(ReplaceFirstHttp(host.v))
    ELSE Str(<<"https://">> \o host.v)

\* pathname.split('/').filter(Boolean): the empty segments are dropped.
FilterBoolean(segs) == SelectSeq(segs, LAMBDA s : s # "")

patterns == << <<"w">>, <<"videos", "watch">>, <<"videos", "embed">>, <<"api", "v1", "videos">> >>

\* p.every((pp, j) => parts[i + j] === pp), an index past the end reads undefined.
MatchesAt(parts, p, i) ==
    \A j \in 1..Len(p) : i + j - 1 <= Len(parts) /\ parts[i + j - 1] = p[j]

\* parts.findIndex(...): the first index where the pattern starts, 0 for -1.
FindIndex(parts, p) ==
    IF \E i \in 1..Len(parts) : MatchesAt(parts, p, i)
    THEN CHOOSE i \in 1..Len(parts) :
            MatchesAt(parts, p, i) /\ \A k \in 1..(i-1) : ~MatchesAt(parts, p, k)
    ELSE 0

\* idx !== -1 && parts[idx + p.length]
PatternHit(parts, p) ==
    FindIndex(parts, p) # 0 /\ FindIndex(parts, p) + Len(p) <= Len(parts)

RECURSIVE PatternLoop(_, _)
PatternLoop(parts, k) ==
    IF k > Len(patterns) THEN NullV
    ELSE IF PatternHit(parts, patterns[k])
         THEN Str(<<parts[FindIndex(parts, patterns[k]) + Len(patterns[k])]>>)
         ELSE PatternLoop(parts, k + 1)

\* A variant that lets the first pattern found decide, followed or not.
parseUrlId_FirstFound(parts) ==
    LET found == {k \in 1..Len(patterns) : FindIndex(parts, patterns[k]) # 0}
        k0 == CHOOSE k \in found : \A k2 \in found : k <= k2
    IN IF found = {} THEN (IF Len(parts) > 0 THEN Str(<<parts[Len(parts)]>>) ELSE NullV)
       ELSE IF PatternHit(parts, patterns[k0])
            THEN Str(<<parts[FindIndex(parts, patterns[k0]) + Len(patterns[k0])]>>)
            ELSE NullV

\* for (const p of patterns) ...; then the last-segment fallback.
parseUrlId(parts) ==
    LET id == PatternLoop(parts, 1)
    IN IF ~Truthy(id) /\ Len(parts) > 0 THEN Str(<<parts[Len(parts)]>>) ELSE id

\* const [host, id, extra] = rest.split('/')
PartAt(parts, i) == IF i <= Len(parts) THEN Str(IF parts[i] = "" THEN <<>> ELSE <<parts[i]>>) ELSE Undef

parseInput(in) ==
    CASE in.k = "empty" -> [host |-> NullV, id |-> NullV]
      [] in.k = "peertube" -> [host |-> ensureHttps(PartAt(in.rest, 1)), id |-> PartAt(in.rest, 2)]
      [] in.k = "url" ->
            [host |-> ensureHttps(Str(IF in.host = "" THEN <<>> ELSE <<in.host>>)),
             id |-> parseUrlId(FilterBoolean(in.path))]
      [] OTHER -> [host |-> NullV, id |-> NullV]

\* ------------------------------------------------------------ input universe
RECURSIVE SeqsUpTo(_, _)
SeqsUpTo(S, n) ==
    IF n = 0 THEN {<<>>}
    ELSE LET shorter == SeqsUpTo(S, n - 1)
         IN shorter \cup {Append(s, x) : s \in {q \in shorter : Len(q) = n - 1}, x \in S}

PathTokens == {"", "w", "videos", "watch", "embed", "api", "v1", "id1"}
UrlHosts == {"", "videos.example", "bastyon.com"}
UrlSchemes == {"http", "https"}
NoQuery == [s |-> "", v |-> "", i |-> ""]

UrlInputs ==
    {[k |-> "url", scheme |-> sc, host |-> h, path |-> p, query |-> NoQuery] :
        sc \in UrlSchemes, h \in UrlHosts, p \in SeqsUpTo(PathTokens, MaxPath)}

PeertubeTokens == {"", "videos.example", "id1", "http:"}
PeertubeInputs ==
    {[k |-> "peertube", rest |-> r] : r \in (SeqsUpTo(PeertubeTokens, 3) \ {<<>>})}

Inputs == {[k |-> "empty"], [k |-> "garbage"]} \cup PeertubeInputs \cup UrlInputs

Pending == [done |-> FALSE]

ParseInit ==
    /\ input \in Inputs
    /\ ref = Pending

Parse ==
    /\ ref = Pending
    /\ ref' = [done |-> TRUE, host |-> parseInput(input).host, id |-> parseInput(input).id]
    /\ UNCHANGED input

\* ---------------------------------------------------------- Candidate Selector
HttpsWeight == 2
Mp4Weight == 3
HeightDivisor == 10000
MaxDesc == 3

\* A file URL: whether it starts with 'https://' and the extension of its path.
FileUrl(https, ext) == [t |-> "url", https |-> https, ext |-> ext]

\* A file descriptor of the metadata JSON (size and fps are copied through by
\* pushFile and read by nothing, they are left out).
File(u, mime, rid, ao) ==
    [nil |-> FALSE, fileUrl |-> u, url |-> NullV, src |-> NullV,
     mimeType |-> mime, type |-> "", hasRes |-> TRUE,
     resolution |-> [id |-> rid, label |-> ""], height |-> 0, audioOnly |-> ao]

NullFile == [nil |-> TRUE]
NoUrlFile == File(NullV, "video/mp4", 720, FALSE)
AltFieldsFile ==
    [nil |-> FALSE, fileUrl |-> NullV, url |-> FileUrl(FALSE, ""), src |-> NullV,
     mimeType |-> "", type |-> "video/mp4", hasRes |-> FALSE,
     resolution |-> [id |-> 0, label |-> ""], height |-> 720, audioOnly |-> FALSE]
LabelFile ==
    [nil |-> FALSE, fileUrl |-> NullV, url |-> NullV, src |-> FileUrl(TRUE, ".m4a"),
     mimeType |-> "audio/mp4", type |-> "", hasRes |-> TRUE,
     resolution |-> [id |-> 0, label |-> "Audio"], height |-> 480, audioOnly |-> TRUE]

Descriptors ==
    { NullFile, NoUrlFile, AltFieldsFile, LabelFile,
      File(FileUrl(TRUE, ".mp4"), "video/mp4", 720, FALSE),
      File(FileUrl(FALSE, ".MP4"), "", 1080, FALSE),
      File(FileUrl(TRUE, ".webm"), "video/webm", 480, FALSE),
      File(FileUrl(FALSE, ".mp4"), "video/mp4", 30000, FALSE) }

Qualities == {0, 720}

\* Number(x) of a resolution label: a numeric string is its number, else NaN,
\* which `|| null` turns to null (0 stands for null: every use reads it falsy).
LabelNumber(l) == CASE l = "720" -> 720 [] l = "480" -> 480 [] OTHER -> 0

\* f.fileUrl || f.url || f.src || null
FirstUrl(f) ==
    IF f.fileUrl # NullV THEN f.fileUrl
    ELSE IF f.url # NullV THEN f.url
    ELSE f.src

\* (f.resolution && (f.resolution.id || f.resolution.label)) || f.height || null,
\* then Number(height) || null
FileHeight(f) ==
    IF f.hasRes /\ f.resolution.id # 0 THEN f.resolution.id
    ELSE IF f.hasRes /\ f.resolution.label # "" THEN LabelNumber(f.resolution.label)
    ELSE f.height

\* pushFile(f, kind): the candidates it appends (none for a null descriptor or
\* one without a URL).
pushFile(f, kind) ==
    IF f.nil THEN <<>>
    ELSE IF FirstUrl(f) = NullV THEN <<>>
    ELSE << [kind |-> kind, fileUrl |-> FirstUrl(f),
             mimeType |-> (IF f.mimeType # "" THEN f.mimeType ELSE f.type),
             height |-> FileHeight(f)] >>

RECURSIVE PushAll(_, _)
PushAll(fs, kind) ==
    IF fs = <<>> THEN <<>> ELSE pushFile(Head(fs), kind) \o PushAll(Tail(fs), kind)

\* for (const f of pl.files) pushFile(f, f.audioOnly ? 'audio' : 'video')
RECURSIVE PushPlaylistFiles(_)
PushPlaylistFiles(fs) ==
    IF fs = <<>> THEN <<>>
    ELSE pushFile(Head(fs), IF Head(fs).audioOnly THEN "audio" ELSE "video")
            \o PushPlaylistFiles(Tail(fs))

RECURSIVE PushPlaylists(_)
PushPlaylists(pls) ==
    IF pls = <<>> THEN <<>>
    ELSE PushPlaylistFiles(Head(pls).files) \o PushAll(Head(pls).audioFiles, "audio")
            \o PushPlaylists(Tail(pls))

\* f.audioOnly is read before pushFile's `if (!f) return`: a null entry of a
\* playlist's files is a TypeError.
BuildThrows(m) ==
    \E i \in 1..Len(m.streamingPlaylists) :
        \E j \in 1..Len(m.streamingPlaylists[i].files) : m.streamingPlaylists[i].files[j].nil

\* The candidates in the order they are pushed, before the sort.
Flatten(m) ==
    PushAll(m.files, "video") \o PushPlaylists(m.streamingPlaylists)
        \o PushAll(m.previewFiles, "video")

\* extname(new URL(u).pathname).toLowerCase()
urlExt(u) == IF u.ext = ".MP4" THEN ".mp4" ELSE u.ext

IsMp4(c) == urlExt(c.fileUrl) = ".mp4" \/ c.mimeType \in {"video/mp4", "audio/mp4"}
IsHttps(c) == c.fileUrl.https

\* score(c), in units of 1/HeightDivisor.
score(c) ==
    (IF IsHttps(c) THEN HttpsWeight * HeightDivisor ELSE 0)
        + (IF IsMp4(c) THEN Mp4Weight * HeightDivisor ELSE 0) + c.height

\* Array.prototype.sort is stable: by key descending, ties in the given order.
StableSortDesc(seq, keys) ==
    LET n == Len(seq)
        rank(i) == 1 + Cardinality({j \in 1..n :
                        keys[j] > keys[i] \/ (keys[j] = keys[i] /\ j < i)})
    IN [r \in 1..n |-> seq[CHOOSE i \in 1..n : rank(i) = r]]

ScoreKeys(cs) == [i \in 1..Len(cs) |-> score(cs[i])]

buildCandidates(m) == StableSortDesc(Flatten(m), ScoreKeys(Flatten(m)))

HeightKeys(cs) == [i \in 1..Len(cs) |-> cs[i].height]
NegHeightKeys(cs) == [i \in 1..Len(cs) |-> 0 - cs[i].height]

RequestedKind(o) == IF o.audioOnly THEN "audio" ELSE "video"

FilterKind(cs, o) == SelectSeq(cs, LAMBDA c : c.kind = RequestedKind(o))

\* A variant that keeps only the heights strictly below the constraint.
Leq_Strict(all, q) ==
    LET f == SelectSeq(all, LAMBDA c : c.height # 0 /\ c.height < q)
    IN StableSortDesc(f, HeightKeys(f))

Leq(all, q) ==
    LET f == SelectSeq(all, LAMBDA c : c.height # 0 /\ c.height <= q)
    IN StableSortDesc(f, HeightKeys(f))

Above(all, q) ==
    LET f == SelectSeq(all, LAMBDA c : c.height # 0 /\ c.height > q)
    IN StableSortDesc(f, NegHeightKeys(f))

Cand(c) == [t |-> "cand", c |-> c]
Thrown == [t |-> "throw"]

PickFile(all, o) ==
    IF Len(all) = 0 THEN NullV
    ELSE IF o.audioOnly THEN Cand(all[1])
    ELSE IF o.quality # 0 /\ Len(Leq(all, o.quality)) > 0 THEN Cand(Leq(all, o.quality)[1])
    ELSE IF o.quality # 0 /\ Len(Above(all, o.quality)) > 0 THEN Cand(Above(all, o.quality)[1])
    ELSE Cand(all[1])

selectFile(m, o) ==
    IF BuildThrows(m) THEN Thrown ELSE PickFile(FilterKind(buildCandidates(m), o), o)

MetaOf(a, b, c, d) ==
    [files |-> a, streamingPlaylists |-> << [files |-> b, audioFiles |-> c] >>,
     previewFiles |-> d]

SelectInit ==
    /\ \E a \in SeqsUpTo(Descriptors, MaxDesc) :
        \E b \in SeqsUpTo(Descriptors, MaxDesc - Len(a)) :
          \E c \in SeqsUpTo(Descriptors, MaxDesc - Len(a) - Len(b)) :
            \E d \in SeqsUpTo(Descriptors, MaxDesc - Len(a) - Len(b) - Len(c)) :
                meta = MetaOf(a, b, c, d)
    /\ opts = [quality |-> 0, audioOnly |-> FALSE]
    /\ chosen = Pending

Select ==
    /\ chosen = Pending
    /\ \E q \in Qualities, ao \in BOOLEAN :
        /\ opts' = [quality |-> q, audioOnly |-> ao]
        /\ chosen' = [done |-> TRUE, r |-> selectFile(meta, opts')]
    /\ UNCHANGED meta

\* ------------------------------------------------------------ Transfer Engine
MaxChunks == 2

Calls == {"A", "B"}
Dests == {"d1", "d2"}
ChunkLens == {1, 2}
Totals == {0, 2, 3}

\* Paths: a base name followed by a number of '.part' suffixes; a call's temporary
\* path is `${outPath}.part`.
Path(base, parts) == [base |-> base, parts |-> parts]
Paths == {Path(b, n) : b \in Dests, n \in 0..2}
Out(c) == outPath[c]

\* A variant that streams straight into the destination.
Tmp_IsOut(c) == outPath[c]

\* A variant with one temporary path for every call.
Tmp_Shared(c) == Path("d1", 2)

Tmp(c) == Path(outPath[c].base, outPath[c].parts + 1)

\* Inodes: a file that was at the destination before, a stale .part file, and the
\* file each call's write stream creates.
Inodes == {"old", "stale"} \cup Calls
OldContent == << [c |-> "old", n |-> 1] >>

RECURSIVE Bytes(_)
Bytes(content) == IF content = <<>> THEN 0 ELSE Head(content).n + Bytes(Tail(content))

RECURSIVE Sum(_)
Sum(lens) == IF lens = <<>> THEN 0 ELSE Head(lens) + Sum(Tail(lens))

Active(c) == pc[c] \notin {"off", "idle", "done_ok", "done_err"}

\* fs.rm(path): unlink when present (a missing file is an error the caller swallows).
Unlink(d, path) == [d EXCEPT ![path] = "none"]

\* line 227-228: const tmp = `${outPath}.part`
Start(c) ==
    /\ alive /\ pc[c] = "idle"
    /\ pc' = [pc EXCEPT ![c] = "rm0"]
    /\ UNCHANGED <<alive, reports, outPath, total, body, downloaded, ws, err, dir, data>>

\* line 230: await fs.rm(tmp).catch(() => {})
RmInitial(c) ==
    /\ alive /\ pc[c] = "rm0"
    /\ dir' = Unlink(dir, Tmp(c))
    /\ pc' = [pc EXCEPT ![c] = "fetch"]
    /\ UNCHANGED <<alive, reports, outPath, total, body, downloaded, ws, err, data>>

\* line 232: fetch rejects (network failure)
FetchReject(c) ==
    /\ alive /\ pc[c] = "fetch"
    /\ pc' = [pc EXCEPT ![c] = "catch"]
    /\ err' = [err EXCEPT ![c] = "fetch"]
    /\ UNCHANGED <<alive, reports, outPath, total, body, downloaded, ws, dir, data>>

\* line 233-236: !r.ok || !r.body
FetchNotOk(c) ==
    /\ alive /\ pc[c] = "fetch"
    /\ pc' = [pc EXCEPT ![c] = "catch"]
    /\ err' = [err EXCEPT ![c] = "status"]
    /\ UNCHANGED <<alive, reports, outPath, total, body, downloaded, ws, dir, data>>

\* line 238-266: content-length read, createWriteStream(tmp) (the open is issued and
\* completes later), the error listener attached, the first read issued.
FetchOk(c) ==
    /\ alive /\ pc[c] = "fetch"
    /\ \E t \in Totals : total' = [total EXCEPT ![c] = t]
    /\ ws' = [ws EXCEPT ![c] = [st |-> "opening", ino |-> "none"]]
    /\ pc' = [pc EXCEPT ![c] = "reading"]
    /\ UNCHANGED <<alive, reports, outPath, body, downloaded, err, dir, data>>

\* The write stream's open(tmp, 'w') completes: the file is created, or truncated when
\* the path exists. Nothing cancels an issued open: it completes whatever the call does.
WsOpened(c) ==
    /\ alive /\ ws[c].st = "opening"
    /\ LET ino == IF dir[Tmp(c)] = "none" THEN c ELSE dir[Tmp(c)]
       IN /\ dir' = [dir EXCEPT ![Tmp(c)] = ino]
          /\ data' = [data EXCEPT ![ino] = <<>>]
          /\ ws' = [ws EXCEPT ![c] = [st |-> "open", ino |-> ino]]
    /\ UNCHANGED <<alive, reports, pc, outPath, total, body, downloaded, err>>

\* A variant in which an error during ws.end(cb) does not run cb.
WsOpenFailed_NoEndCallback(c) ==
    /\ alive /\ ws[c].st = "opening"
    /\ ws' = [ws EXCEPT ![c] = [st |-> "failed", ino |-> "none"]]
    /\ pc' = [pc EXCEPT ![c] = IF pc[c] \in {"reading", "writing"} THEN "catch" ELSE pc[c]]
    /\ err' = [err EXCEPT ![c] = IF pc[c] \in {"reading", "writing"} THEN "open" ELSE err[c]]
    /\ UNCHANGED <<alive, reports, outPath, total, body, downloaded, dir, data>>

\* The open fails: the stream emits 'error'. While the pump's promise is pending that
\* rejects it (line 265); while ws.end(cb) waits, cb runs and line 269 resolves.
WsOpenFailed(c) ==
    /\ alive /\ ws[c].st = "opening"
    /\ ws' = [ws EXCEPT ![c] = [st |-> "failed", ino |-> "none"]]
    /\ pc' = [pc EXCEPT ![c] =
                IF pc[c] \in {"reading", "writing"} THEN "catch"
                ELSE IF pc[c] = "ending" THEN "rename"
                ELSE pc[c]]
    /\ err' = [err EXCEPT ![c] = IF pc[c] \in {"reading", "writing"} THEN "open" ELSE err[c]]
    /\ UNCHANGED <<alive, reports, outPath, total, body, downloaded, dir, data>>

\* A variant that issues the next read without waiting for the write's callback.
ReadChunk_Eager(c) ==
    /\ alive /\ pc[c] \in {"reading", "writing"}
    /\ Len(body[c]) < MaxChunks
    /\ \E n \in ChunkLens : body' = [body EXCEPT ![c] = Append(body[c], n)]
    /\ pc' = [pc EXCEPT ![c] = "writing"]
    /\ UNCHANGED <<alive, reports, outPath, total, downloaded, ws, err, dir, data>>

\* line 255-257: reader.read() yields a chunk, ws.write(value, cb) is issued.
ReadChunk(c) ==
    /\ alive /\ pc[c] = "reading"
    /\ Len(body[c]) < MaxChunks
    /\ \E n \in ChunkLens : body' = [body EXCEPT ![c] = Append(body[c], n)]
    /\ pc' = [pc EXCEPT ![c] = "writing"]
    /\ UNCHANGED <<alive, reports, outPath, total, downloaded, ws, err, dir, data>>

\* line 256: done, the pump's promise resolves; line 269: ws.end(cb) is issued.
ReadDone(c) ==
    /\ alive /\ pc[c] = "reading"
    /\ pc' = [pc EXCEPT ![c] = "ending"]
    /\ UNCHANGED <<alive, reports, outPath, total, body, downloaded, ws, err, dir, data>>

\* line 263: the read rejects.
ReadError(c) ==
    /\ alive /\ pc[c] = "reading"
    /\ pc' = [pc EXCEPT ![c] = "catch"]
    /\ err' = [err EXCEPT ![c] = "read"]
    /\ UNCHANGED <<alive, reports, outPath, total, body, downloaded, ws, dir, data>>

\* A variant without the total test.
report_NoTotalTest(printed, tot, count) == Append(printed, count)

\* line 244-248: report() prints the counter when a total is known, else nothing.
report(printed, tot, count) == IF tot = 0 THEN printed ELSE Append(printed, count)

\* A variant that drops the chunk's bytes but counts them.
WriteDone_Dropped(c) ==
    /\ alive /\ pc[c] = "writing" /\ ws[c].st = "open"
    /\ downloaded' = [downloaded EXCEPT ![c] = @ + body[c][Len(body[c])]]
    /\ reports' = [reports EXCEPT ![c] = report(@, total[c], downloaded'[c])]
    /\ pc' = [pc EXCEPT ![c] = "reading"]
    /\ UNCHANGED <<alive, outPath, total, body, ws, err, dir, data>>

\* line 257-261: the write completes on the open file; the counter grows by the
\* chunk's length; the next read is issued.
WriteDone(c) ==
    /\ alive /\ pc[c] = "writing" /\ ws[c].st = "open"
    /\ data' = [data EXCEPT ![ws[c].ino] =
                    Append(@, [c |-> c, n |-> body[c][Len(body[c])]])]
    /\ downloaded' = [downloaded EXCEPT ![c] = @ + body[c][Len(body[c])]]
    /\ reports' = [reports EXCEPT ![c] = report(@, total[c], downloaded'[c])]
    /\ pc' = [pc EXCEPT ![c] = "reading"]
    /\ UNCHANGED <<alive, outPath, total, body, ws, err, dir>>

\* line 258: the write fails, cb(err) rejects.
WriteError(c) ==
    /\ alive /\ pc[c] = "writing" /\ ws[c].st = "open"
    /\ ws' = [ws EXCEPT ![c].st = "failed"]
    /\ pc' = [pc EXCEPT ![c] = "catch"]
    /\ err' = [err EXCEPT ![c] = "write"]
    /\ UNCHANGED <<alive, reports, outPath, total, body, downloaded, dir, data>>

\* line 269: the stream finishes (after its open) and cb resolves.
EndDone(c) ==
    /\ alive /\ pc[c] = "ending" /\ ws[c].st = "open"
    /\ ws' = [ws EXCEPT ![c].st = "closed"]
    /\ pc' = [pc EXCEPT ![c] = "rename"]
    /\ UNCHANGED <<alive, reports, outPath, total, body, downloaded, err, dir, data>>

\* line 269: the stream errors while it is being ended (the close fails); cb runs with
\* the error, which res() drops, and the listener's reject finds the promise settled.
EndError(c) ==
    /\ alive /\ pc[c] = "ending" /\ ws[c].st = "open"
    /\ ws' = [ws EXCEPT ![c].st = "failed"]
    /\ pc' = [pc EXCEPT ![c] = "rename"]
    /\ UNCHANGED <<alive, reports, outPath, total, body, downloaded, err, dir, data>>

\* A variant that renames by the file the stream wrote, whatever the path holds.
RenameOk_ByStream(c) ==
    /\ alive /\ pc[c] = "rename" /\ ws[c].ino # "none"
    /\ dir' = [dir EXCEPT ![Out(c)] = ws[c].ino, ![Tmp(c)] = "none"]
    /\ pc' = [pc EXCEPT ![c] = "done_ok"]
    /\ UNCHANGED <<alive, reports, outPath, total, body, downloaded, ws, err, data>>

\* line 271-272: fs.rename(tmp, outPath) succeeds.
RenameOk(c) ==
    /\ alive /\ pc[c] = "rename" /\ dir[Tmp(c)] # "none"
    /\ dir' = [dir EXCEPT ![Out(c)] = dir[Tmp(c)], ![Tmp(c)] = "none"]
    /\ pc' = [pc EXCEPT ![c] = "done_ok"]
    /\ UNCHANGED <<alive, reports, outPath, total, body, downloaded, ws, err, data>>

\* line 271: fs.rename rejects (tmp missing, or the destination refuses it).
RenameFail(c) ==
    /\ alive /\ pc[c] = "rename"
    /\ pc' = [pc EXCEPT ![c] = "catch"]
    /\ err' = [err EXCEPT ![c] = "rename"]
    /\ UNCHANGED <<alive, reports, outPath, total, body, downloaded, ws, dir, data>>

\* line 274: await fs.rm(tmp).catch(() => {})
CleanupRm(c) ==
    /\ alive /\ pc[c] = "catch"
    /\ dir' = Unlink(dir, Tmp(c))
    /\ pc' = [pc EXCEPT ![c] = "throw"]
    /\ UNCHANGED <<alive, reports, outPath, total, body, downloaded, ws, err, data>>

\* line 275: throw e, the error reaches the caller.
Throw(c) ==
    /\ alive /\ pc[c] = "throw"
    /\ pc' = [pc EXCEPT ![c] = "done_err"]
    /\ UNCHANGED <<alive, reports, outPath, total, body, downloaded, ws, err, dir, data>>

\* The process is terminated from outside (a signal) while a call is under way:
\* no handler is installed, nothing more runs.
Terminate ==
    /\ alive /\ \E c \in Calls : Active(c)
    /\ alive' = FALSE
    /\ UNCHANGED <<callVars, fsVars>>

NoStream == [st |-> "none", ino |-> "none"]

\* One call, to d1; d1 and d1.part may each be there from an earlier run.
DownloadInit ==
    /\ alive = TRUE
    /\ pc = [c \in Calls |-> IF c = "A" THEN "idle" ELSE "off"]
    /\ outPath = [c \in Calls |-> IF c = "A" THEN Path("d1", 0) ELSE Path("d2", 0)]
    /\ total = [c \in Calls |-> 0]
    /\ body = [c \in Calls |-> <<>>]
    /\ downloaded = [c \in Calls |-> 0]
    /\ ws = [c \in Calls |-> NoStream]
    /\ err = [c \in Calls |-> "none"]
    /\ reports = [c \in Calls |-> <<>>]
    /\ \E o \in {"none", "old"}, s \in {"none", "stale"} :
          dir = [p \in Paths |-> IF p = Path("d1", 0) THEN o
                                 ELSE IF p = Path("d1", 1) THEN s ELSE "none"]
    /\ data = [i \in Inodes |-> IF i \in {"old", "stale"} THEN OldContent ELSE <<>>]

\* Two calls under way at once: A to d1; B to another name, to d1.part, or to d1 too.
TwoInit ==
    /\ alive = TRUE
    /\ pc = [c \in Calls |-> "idle"]
    /\ \E b \in {Path("d2", 0), Path("d1", 1), Path("d1", 0)} :
          outPath = [c \in Calls |-> IF c = "A" THEN Path("d1", 0) ELSE b]
    /\ total = [c \in Calls |-> 0]
    /\ body = [c \in Calls |-> <<>>]
    /\ downloaded = [c \in Calls |-> 0]
    /\ ws = [c \in Calls |-> NoStream]
    /\ err = [c \in Calls |-> "none"]
    /\ reports = [c \in Calls |-> <<>>]
    /\ dir = [p \in Paths |-> "none"]
    /\ data = [i \in Inodes |-> <<>>]

DownloadIdle ==
    /\ alive = TRUE
    /\ pc = [c \in Calls |-> "off"]
    /\ outPath = [c \in Calls |-> IF c = "A" THEN Path("d1", 0) ELSE Path("d2", 0)]
    /\ total = [c \in Calls |-> 0]
    /\ body = [c \in Calls |-> <<>>]
    /\ downloaded = [c \in Calls |-> 0]
    /\ ws = [c \in Calls |-> NoStream]
    /\ err = [c \in Calls |-> "none"]
    /\ reports = [c \in Calls |-> <<>>]
    /\ dir = [p \in Paths |-> "none"]
    /\ data = [i \in Inodes |-> <<>>]

\* ------------------------------------------------------------------ Post URLs
BastyonHosts == {"bastyon.com", "pocketnet.app"}

RECURSIVE StripTrailingEmpty(_)
StripTrailingEmpty(segs) ==
    IF segs # <<>> /\ segs[Len(segs)] = "" THEN StripTrailingEmpty(SubSeq(segs, 1, Len(segs) - 1))
    ELSE segs

\* extractBastyonPostTx(input): the s, v or i query value of a post URL, else null.
\* (host.endsWith(...) is looked up in the hosts the inputs use; the peertube:// inputs
\* carry no query, so they yield null like a string new URL() rejects.)
extractBastyonPostTx(in) ==
    IF in.k # "url" THEN NullV
    ELSE IF in.host \notin BastyonHosts THEN NullV
    ELSE IF StripTrailingEmpty(in.path) \notin {<<"post">>, <<"index">>} THEN NullV
    ELSE IF in.query.s # "" THEN Str(<<in.query.s>>)
    ELSE IF in.query.v # "" THEN Str(<<in.query.v>>)
    ELSE IF in.query.i # "" THEN Str(<<in.query.i>>)
    ELSE NullV

\* ------------------------------------------------------------------------ CLI
Url(sc, h, p, q) == [k |-> "url", scheme |-> sc, host |-> h, path |-> p, query |-> q]

CliInputs ==
    { [k |-> "empty"], [k |-> "garbage"],
      [k |-> "peertube", rest |-> <<"videos.example", "id1">>],
      Url("https", "videos.example", <<"videos", "watch", "id1">>, NoQuery),
      Url("http", "videos.example", <<"">>, NoQuery),
      Url("https", "bastyon.com", <<"post">>, [s |-> "tx1", v |-> "", i |-> ""]),
      Url("https", "pocketnet.app", <<"index", "">>, [s |-> "", v |-> "tx1", i |-> ""]),
      Url("https", "bastyon.com", <<"post">>, NoQuery) }

CliMetas ==
    { MetaOf(<<>>, <<>>, <<>>, <<>>),
      MetaOf(<<File(FileUrl(TRUE, ".mp4"), "video/mp4", 720, FALSE)>>, <<>>, <<>>, <<>>),
      MetaOf(<<>>, <<NullFile>>, <<>>, <<>>),
      MetaOf(<<File(FileUrl(FALSE, ".mp4"), "video/mp4", 1080, FALSE)>>, <<>>, <<LabelFile>>, <<>>) }

CliInit ==
    /\ input \in CliInputs
    /\ opts \in {[quality |-> q, audioOnly |-> ao] : q \in Qualities, ao \in BOOLEAN}
    /\ ref = Pending
    /\ meta = MetaOf(<<>>, <<>>, <<>>, <<>>)
    /\ chosen = Pending
    /\ cliPc = "args"
    /\ netLog = <<>>

\* cli.js line 57-61: no input URL among the arguments, exit(2).
CliNoInput ==
    /\ cliPc = "args" /\ input.k = "empty"
    /\ cliPc' = "exit2"
    /\ UNCHANGED <<input, ref, meta, opts, chosen, netLog>>

\* cli.js line 64-67: parseInput(inputUrl); an unresolved reference throws.
CliParse ==
    /\ cliPc = "args" /\ input.k # "empty"
    /\ ref' = [done |-> TRUE, host |-> parseInput(input).host, id |-> parseInput(input).id]
    /\ cliPc' = IF ~Truthy(ref'.host) \/ ~Truthy(ref'.id) THEN "exit1" ELSE "fetchMeta"
    /\ UNCHANGED <<input, meta, opts, chosen, netLog>>

\* A library caller (README.md line 250-254): it has the reference of its input and
\* calls fetchVideoMeta(host, id) without a test of its own; the steps that follow are
\* those of main, and "exit1" is the error reaching the caller.
LibInputs ==
    CliInputs \cup {[k |-> "peertube", rest |-> <<"videos.example">>],
                    [k |-> "peertube", rest |-> <<"videos.example", "">>]}

LibInit ==
    /\ input \in LibInputs
    /\ opts \in {[quality |-> q, audioOnly |-> ao] : q \in Qualities, ao \in BOOLEAN}
    /\ ref = [done |-> TRUE, host |-> parseInput(input).host, id |-> parseInput(input).id]
    /\ meta = MetaOf(<<>>, <<>>, <<>>, <<>>)
    /\ chosen = Pending
    /\ cliPc = "fetchMeta"
    /\ netLog = <<>>

\* A variant of fetchVideoMeta without its first line.
CliFetchMeta_NoGuard ==
    /\ cliPc = "fetchMeta"
    /\ netLog' = Append(netLog, [kind |-> "meta", host |-> ensureHttps(ref.host), id |-> ref.id])
    /\ cliPc' = "awaitMeta"
    /\ UNCHANGED <<input, ref, meta, opts, chosen>>

\* cli.js line 69, index.js line 123-130: fetchVideoMeta throws on a falsy host or id,
\* else issues the GET to `${base}/api/v1/videos/${id}`.
CliFetchMeta ==
    /\ cliPc = "fetchMeta"
    /\ IF ~Truthy(ref.host) \/ ~Truthy(ref.id)
       THEN cliPc' = "exit1" /\ UNCHANGED netLog
       ELSE /\ netLog' = Append(netLog, [kind |-> "meta", host |-> ensureHttps(ref.host),
                                         id |-> ref.id])
            /\ cliPc' = "awaitMeta"
    /\ UNCHANGED <<input, ref, meta, opts, chosen>>

\* index.js line 131-134: a non-success status throws.
CliMetaError ==
    /\ cliPc = "awaitMeta"
    /\ cliPc' = "exit1"
    /\ UNCHANGED <<input, ref, meta, opts, chosen, netLog>>

\* index.js line 135-136: the parsed JSON is the metadata.
CliMetaOk ==
    /\ cliPc = "awaitMeta"
    /\ meta' \in CliMetas
    /\ cliPc' = "select"
    /\ UNCHANGED <<input, ref, opts, chosen, netLog>>

\* cli.js line 70-73: selectFile; null (or a throw inside it) ends in the catch.
CliSelect ==
    /\ cliPc = "select"
    /\ chosen' = [done |-> TRUE, r |-> selectFile(meta, opts)]
    /\ cliPc' = IF chosen'.r.t = "cand" THEN "download" ELSE "exit1"
    /\ UNCHANGED <<input, ref, meta, opts, netLog>>

\* cli.js line 75-76: downloadFile(chosen.fileUrl, outPath) is called.
CliDownload ==
    /\ cliPc = "download"
    /\ netLog' = Append(netLog, [kind |-> "transfer", url |-> chosen.r.c.fileUrl])
    /\ cliPc' = "awaitDownload"
    /\ UNCHANGED <<input, ref, meta, opts, chosen>>

\* cli.js line 78: Saved to ...
CliSaved ==
    /\ cliPc = "awaitDownload"
    /\ cliPc' = "exit0"
    /\ UNCHANGED <<input, ref, meta, opts, chosen, netLog>>

\* cli.js line 79-82: Download failed, exit(1).
CliDownloadFailed ==
    /\ cliPc = "awaitDownload"
    /\ cliPc' = "exit1"
    /\ UNCHANGED <<input, ref, meta, opts, chosen, netLog>>

CliIdle ==
    /\ cliPc = "off"
    /\ netLog = <<>>


\* --------------------------------------------------------------- Output Namer
NameLimit == 120
MaxTitle == 3

\* A string is a sequence of runs: n copies of one character. The characters are
\* classes: "a" a safe character, "?" one of / : * ? " < > |, " " a space, "tab" a
\* control character that is white space, "ctl" one that is not.
Run(ch, n) == [ch |-> ch, n |-> n]
IsSpace(ch) == ch \in {" ", "tab"}
IsUnsafe(ch) == ch \in {"?", "tab", "ctl"}

RECURSIVE StrLen(_)
StrLen(s) == IF s = <<>> THEN 0 ELSE Head(s).n + StrLen(Tail(s))

RECURSIVE TrimStart(_)
TrimStart(s) == IF s # <<>> /\ IsSpace(Head(s).ch) THEN TrimStart(Tail(s)) ELSE s

RECURSIVE TrimEnd(_)
TrimEnd(s) ==
    IF s # <<>> /\ IsSpace(s[Len(s)].ch) THEN TrimEnd(SubSeq(s, 1, Len(s) - 1)) ELSE s

\* String.prototype.trim
Trim(s) == TrimEnd(TrimStart(s))

\* .replace(/[\/:*?"<>|\u0000-\u001F]/g, ' ')
ReplaceUnsafe(s) == [i \in 1..Len(s) |-> IF IsUnsafe(s[i].ch) THEN Run(" ", s[i].n) ELSE s[i]]

\* .replace(/\s+/g, ' ')
RECURSIVE CollapseSpaces(_)
CollapseSpaces(s) ==
    IF s = <<>> THEN <<>>
    ELSE IF IsSpace(Head(s).ch) THEN <<Run(" ", 1)>> \o CollapseSpaces(TrimStart(s))
    ELSE <<Head(s)>> \o CollapseSpaces(Tail(s))

\* .slice(0, k)
RECURSIVE Slice(_, _)
Slice(s, k) ==
    IF s = <<>> \/ k = 0 THEN <<>>
    ELSE IF Head(s).n <= k THEN <<Head(s)>> \o Slice(Tail(s), k - Head(s).n)
    ELSE <<Run(Head(s).ch, k)>>

\* the literal 'video'
VideoWord == <<Run("v", 1), Run("i", 1), Run("d", 1), Run("e", 1), Run("o", 1)>>

sanitizeName(name) ==
    LET base == IF Trim(name) # <<>> THEN Trim(name) ELSE VideoWord
    IN Trim(Slice(CollapseSpaces(ReplaceUnsafe(base)), NameLimit))

\* meta.name || meta.title || meta.uuid || 'video' (an absent field is the empty string
\* here: both are falsy); the extension of the URL, else by kind.
deriveOutputName(m, ch) ==
    LET src == IF m.name # <<>> THEN m.name
               ELSE IF m.title # <<>> THEN m.title
               ELSE IF m.uuid # <<>> THEN m.uuid ELSE VideoWord
        ext == IF urlExt(ch.fileUrl) # "" THEN urlExt(ch.fileUrl)
               ELSE IF ch.kind = "audio" THEN ".m4a" ELSE ".mp4"
    IN [base |-> sanitizeName(src), ext |-> ext]

\* Titles: up to MaxTitle runs; the long run reaches the limit with one more character.
TitleRuns == {Run(ch, 1) : ch \in {"a", "?", " ", "tab", "ctl"}} \cup {Run("a", NameLimit - 1)}
Titles == SeqsUpTo(TitleRuns, MaxTitle)

NameInit ==
    /\ \E t \in Titles, t2 \in {<<>>, <<Run("a", 1)>>}, u \in {<<>>, <<Run("a", 2)>>},
          e \in {"", ".MP4"}, k \in {"video", "audio"} :
          nameIn = [meta |-> [name |-> t, title |-> t2, uuid |-> u],
                    chosen |-> [fileUrl |-> FileUrl(TRUE, e), kind |-> k]]
    /\ outName = Pending

DeriveName ==
    /\ outName = Pending
    /\ outName' = [done |-> TRUE,
                   base |-> deriveOutputName(nameIn.meta, nameIn.chosen).base,
                   ext |-> deriveOutputName(nameIn.meta, nameIn.chosen).ext]
    /\ UNCHANGED nameIn

NameIdle ==
    /\ nameIn = [meta |-> [name |-> <<>>, title |-> <<>>, uuid |-> <<>>],
                 chosen |-> [fileUrl |-> FileUrl(TRUE, ""), kind |-> "video"]]
    /\ outName = Pending

\* ------------------------------------------------------------- Post Resolver
MaxPosts == 2

\* post.u: absent, '', a percent-encoded string (of: what it decodes to, as parseInput
\* reads it), or a string with a malformed percent sequence.
Encoded(in) == [t |-> "str", v |-> <<"enc">>, ok |-> TRUE, of |-> in]
BadEncoded == [t |-> "str", v |-> <<"%">>, ok |-> FALSE]

\* decodeURIComponent: the decoded string, or a URIError.
decodeURIComponent(x) == IF x.ok THEN [t |-> "ok", v |-> x.of] ELSE [t |-> "URIError"]

PostTargets ==
    { [k |-> "garbage"],
      [k |-> "peertube", rest |-> <<"videos.example", "id1">>],
      [k |-> "peertube", rest |-> <<"videos.example">>],
      [k |-> "url", scheme |-> "https", host |-> "videos.example",
       path |-> <<"videos", "watch", "id1">>, query |-> NoQuery],
      [k |-> "url", scheme |-> "http", host |-> "videos.example", path |-> <<"">>,
       query |-> NoQuery] }

\* The records of the payload array: null, or an object with its u field.
PostRecords ==
    {[nil |-> TRUE]} \cup
    {[nil |-> FALSE, u |-> x] :
        x \in {Undef, Str(<<>>), BadEncoded} \cup {Encoded(in) : in \in PostTargets}}

\* JSON bodies: null, a bare array, an object with its result and data fields (null
\* stands for an absent field too); data is null, an array, or something else.
JArray(a) == [t |-> "array", v |-> a]
JOther == [t |-> "other"]
JObject(r, d) == [t |-> "object", result |-> r, data |-> d]
RpcArrays == {JArray(a) : a \in SeqsUpTo(PostRecords, MaxPosts)}
RpcBodies ==
    {NullV} \cup RpcArrays \cup
    {JObject(r, d) : r \in {NullV, Str(<<"ok">>)}, d \in {NullV, JOther} \cup RpcArrays}

Failure(name) == [t |-> "error", name |-> name]
Returned(v) == [t |-> "ok", v |-> v]
Reference(h, i, u) == [t |-> "ref", host |-> h, id |-> i, resolvedFrom |-> u]
NoBody == [t |-> "none"]

\* bastyonRpcCall, line 92-96: the payload of the parsed body j.
rpcPayload(j) ==
    IF j.t = "object" /\ j.result # NullV /\ j.data # NullV THEN Returned(j.data)
    ELSE IF j.t = "array" THEN Returned(j)
    ELSE IF j.t = "object" /\ j.data # NullV THEN Returned(j.data)
    ELSE Failure("unexpected")

\* A variant without the !data.length test.
resolvePost_NoLengthTest(d) ==
    IF d.t # "array" THEN Failure("notfound")
    ELSE LET post == IF d.v = <<>> \/ d.v[1].nil THEN [u |-> Undef] ELSE d.v[1]
         IN IF ~Truthy(post.u) THEN Failure("nourl")
            ELSE IF decodeURIComponent(post.u).t = "URIError" THEN Failure("uri")
            ELSE LET u == decodeURIComponent(post.u).v
                     r == parseInput(u)
                 IN IF ~Truthy(r.host) \/ ~Truthy(r.id) THEN Failure("unparsable")
                    ELSE Reference(r.host, r.id, u)

\* resolveBastyonPost, line 103-110, on the payload the call returned.
resolvePost(d) ==
    IF d.t # "array" \/ Len(d.v) = 0 THEN Failure("notfound")
    ELSE LET post == IF d.v[1].nil THEN [u |-> Undef] ELSE d.v[1]
         IN IF ~Truthy(post.u) THEN Failure("nourl")
            ELSE IF decodeURIComponent(post.u).t = "URIError" THEN Failure("uri")
            ELSE LET u == decodeURIComponent(post.u).v
                     r == parseInput(u)
                 IN IF ~Truthy(r.host) \/ ~Truthy(r.id) THEN Failure("unparsable")
                    ELSE Reference(r.host, r.id, u)

ResolveInit ==
    /\ resPc = "idle"
    /\ txid \in {NullV, Str(<<>>), Str(<<"tx1">>)}
    /\ rpcBody = NoBody
    /\ resolved = Pending

\* line 100: if (!txid) throw; line 102, 76: the POST is issued.
ResolveStart ==
    /\ resPc = "idle"
    /\ IF Truthy(txid)
       THEN resPc' = "rpc" /\ UNCHANGED resolved
       ELSE resPc' = "done" /\ resolved' = [done |-> TRUE, r |-> Failure("missing")]
    /\ UNCHANGED <<txid, rpcBody>>

\* line 76: fetch rejects.
RpcReject ==
    /\ resPc = "rpc"
    /\ resPc' = "done"
    /\ resolved' = [done |-> TRUE, r |-> Failure("network")]
    /\ UNCHANGED <<txid, rpcBody>>

\* line 87-90: !r.ok
RpcNotOk ==
    /\ resPc = "rpc"
    /\ resPc' = "done"
    /\ resolved' = [done |-> TRUE, r |-> Failure("status")]
    /\ UNCHANGED <<txid, rpcBody>>

\* line 91: r.ok, r.json() is awaited.
RpcOk ==
    /\ resPc = "rpc"
    /\ resPc' = "json"
    /\ UNCHANGED <<txid, rpcBody, resolved>>

\* line 91: the body is not JSON, r.json() rejects.
RpcBadJson ==
    /\ resPc = "json"
    /\ resPc' = "done"
    /\ resolved' = [done |-> TRUE, r |-> Failure("json")]
    /\ UNCHANGED <<txid, rpcBody>>

\* line 91-96, 103-110: the body parses; the rest runs without a further await.
RpcJson ==
    /\ resPc = "json"
    /\ \E j \in RpcBodies :
        /\ rpcBody' = j
        /\ resolved' = [done |-> TRUE,
                        r |-> IF rpcPayload(j).t = "ok" THEN resolvePost(rpcPayload(j).v)
                              ELSE rpcPayload(j)]
    /\ resPc' = "done"
    /\ UNCHANGED txid

ResolveIdle ==
    /\ resPc = "off"
    /\ txid = NullV
    /\ rpcBody = NoBody
    /\ resolved = Pending

\* ------------------------------------------------------------ specifications
ParseIdle ==
    /\ input = [k |-> "empty"]
    /\ ref = Pending

SelectIdle ==
    /\ meta = MetaOf(<<>>, <<>>, <<>>, <<>>)
    /\ opts = [quality |-> 0, audioOnly |-> FALSE]
    /\ chosen = Pending

InitParse == ParseInit /\ SelectIdle /\ DownloadIdle /\ CliIdle /\ NameIdle /\ ResolveIdle
NextParse == Parse /\ UNCHANGED <<selectVars, downloadVars, cliVars, nameVars, resolveVars>>
SpecParse == InitParse /\ [][NextParse]_vars

InitSelect == SelectInit /\ ParseIdle /\ DownloadIdle /\ CliIdle /\ NameIdle /\ ResolveIdle
NextSelect == Select /\ UNCHANGED <<parseVars, downloadVars, cliVars, nameVars, resolveVars>>
SpecSelect == InitSelect /\ [][NextSelect]_vars

InitDownload == DownloadInit /\ ParseIdle /\ SelectIdle /\ CliIdle /\ NameIdle /\ ResolveIdle
NextDownload ==
    \/ Start("A") /\ UNCHANGED <<parseVars, selectVars, cliVars, nameVars, resolveVars>>
    \/ RmInitial("A") /\ UNCHANGED <<parseVars, selectVars, cliVars, nameVars, resolveVars>>
    \/ FetchReject("A") /\ UNCHANGED <<parseVars, selectVars, cliVars, nameVars, resolveVars>>
    \/ FetchNotOk("A") /\ UNCHANGED <<parseVars, selectVars, cliVars, nameVars, resolveVars>>
    \/ FetchOk("A") /\ UNCHANGED <<parseVars, selectVars, cliVars, nameVars, resolveVars>>
    \/ WsOpened("A") /\ UNCHANGED <<parseVars, selectVars, cliVars, nameVars, resolveVars>>
    \/ WsOpenFailed("A") /\ UNCHANGED <<parseVars, selectVars, cliVars, nameVars, resolveVars>>
    \/ ReadChunk("A") /\ UNCHANGED <<parseVars, selectVars, cliVars, nameVars, resolveVars>>
    \/ ReadDone("A") /\ UNCHANGED <<parseVars, selectVars, cliVars, nameVars, resolveVars>>
    \/ ReadError("A") /\ UNCHANGED <<parseVars, selectVars, cliVars, nameVars, resolveVars>>
    \/ WriteDone("A") /\ UNCHANGED <<parseVars, selectVars, cliVars, nameVars, resolveVars>>
    \/ WriteError("A") /\ UNCHANGED <<parseVars, selectVars, cliVars, nameVars, resolveVars>>
    \/ EndDone("A") /\ UNCHANGED <<parseVars, selectVars, cliVars, nameVars, resolveVars>>
    \/ EndError("A") /\ UNCHANGED <<parseVars, selectVars, cliVars, nameVars, resolveVars>>
    \/ RenameOk("A") /\ UNCHANGED <<parseVars, selectVars, cliVars, nameVars, resolveVars>>
    \/ RenameFail("A") /\ UNCHANGED <<parseVars, selectVars, cliVars, nameVars, resolveVars>>
    \/ CleanupRm("A") /\ UNCHANGED <<parseVars, selectVars, cliVars, nameVars, resolveVars>>
    \/ Throw("A") /\ UNCHANGED <<parseVars, selectVars, cliVars, nameVars, resolveVars>>
    \/ Terminate /\ UNCHANGED <<parseVars, selectVars, cliVars, nameVars, resolveVars>>
SpecDownload == InitDownload /\ [][NextDownload]_vars

\* The content-length the two concurrent responses declare (it decides only what
\* report() prints).
TwoTotals == {3}

othersIdle == <<parseVars, selectVars, cliVars, nameVars, resolveVars>>

\* Every issued operation completes: the removals, the fetch, the stream's open, each
\* read, each write, the stream's end and the rename settle one way or the other.
DownloadFair ==
    /\ WF_vars(Start("A") /\ UNCHANGED othersIdle)
    /\ WF_vars(RmInitial("A") /\ UNCHANGED othersIdle)
    /\ WF_vars((FetchReject("A") \/ FetchNotOk("A") \/ FetchOk("A")) /\ UNCHANGED othersIdle)
    /\ WF_vars((WsOpened("A") \/ WsOpenFailed("A")) /\ UNCHANGED othersIdle)
    /\ WF_vars((ReadChunk("A") \/ ReadDone("A") \/ ReadError("A")) /\ UNCHANGED othersIdle)
    /\ WF_vars((WriteDone("A") \/ WriteError("A")) /\ UNCHANGED othersIdle)
    /\ WF_vars((EndDone("A") \/ EndError("A")) /\ UNCHANGED othersIdle)
    /\ WF_vars((RenameOk("A") \/ RenameFail("A")) /\ UNCHANGED othersIdle)
    /\ WF_vars(CleanupRm("A") /\ UNCHANGED othersIdle)
    /\ WF_vars(Throw("A") /\ UNCHANGED othersIdle)
SpecDownloadLive == InitDownload /\ [][NextDownload]_vars /\ DownloadFair

InitTwo == TwoInit /\ ParseIdle /\ SelectIdle /\ CliIdle /\ NameIdle /\ ResolveIdle
NextTwo ==
    \/ \E c \in Calls : Start(c) /\ UNCHANGED othersIdle
    \/ \E c \in Calls : RmInitial(c) /\ UNCHANGED othersIdle
    \/ \E c \in Calls : FetchReject(c) /\ UNCHANGED othersIdle
    \/ \E c \in Calls : FetchNotOk(c) /\ UNCHANGED othersIdle
    \/ \E c \in Calls : FetchOk(c) /\ total'[c] \in TwoTotals /\ UNCHANGED othersIdle
    \/ \E c \in Calls : WsOpened(c) /\ UNCHANGED othersIdle
    \/ \E c \in Calls : WsOpenFailed(c) /\ UNCHANGED othersIdle
    \/ \E c \in Calls : ReadChunk(c) /\ UNCHANGED othersIdle
    \/ \E c \in Calls : ReadDone(c) /\ UNCHANGED othersIdle
    \/ \E c \in Calls : ReadError(c) /\ UNCHANGED othersIdle
    \/ \E c \in Calls : WriteDone(c) /\ UNCHANGED othersIdle
    \/ \E c \in Calls : WriteError(c) /\ UNCHANGED othersIdle
    \/ \E c \in Calls : EndDone(c) /\ UNCHANGED othersIdle
    \/ \E c \in Calls : EndError(c) /\ UNCHANGED othersIdle
    \/ \E c \in Calls : RenameOk(c) /\ UNCHANGED othersIdle
    \/ \E c \in Calls : RenameFail(c) /\ UNCHANGED othersIdle
    \/ \E c \in Calls : CleanupRm(c) /\ UNCHANGED othersIdle
    \/ \E c \in Calls : Throw(c) /\ UNCHANGED othersIdle
SpecTwo == InitTwo /\ [][NextTwo]_vars

InitCli == CliInit /\ DownloadIdle /\ NameIdle /\ ResolveIdle
NextCli ==
    \/ CliNoInput /\ UNCHANGED <<downloadVars, nameVars, resolveVars>>
    \/ CliParse /\ UNCHANGED <<downloadVars, nameVars, resolveVars>>
    \/ CliFetchMeta /\ UNCHANGED <<downloadVars, nameVars, resolveVars>>
    \/ CliMetaError /\ UNCHANGED <<downloadVars, nameVars, resolveVars>>
    \/ CliMetaOk /\ UNCHANGED <<downloadVars, nameVars, resolveVars>>
    \/ CliSelect /\ UNCHANGED <<downloadVars, nameVars, resolveVars>>
    \/ CliDownload /\ UNCHANGED <<downloadVars, nameVars, resolveVars>>
    \/ CliSaved /\ UNCHANGED <<downloadVars, nameVars, resolveVars>>
    \/ CliDownloadFailed /\ UNCHANGED <<downloadVars, nameVars, resolveVars>>
SpecCli == InitCli /\ [][NextCli]_vars

InitPipeline == (CliInit \/ LibInit) /\ DownloadIdle /\ NameIdle /\ ResolveIdle
SpecPipeline == InitPipeline /\ [][NextCli]_vars

InitName == NameInit /\ ParseIdle /\ SelectIdle /\ DownloadIdle /\ CliIdle /\ ResolveIdle
NextName == DeriveName /\ UNCHANGED <<parseVars, selectVars, downloadVars, cliVars, resolveVars>>
SpecName == InitName /\ [][NextName]_vars

InitResolve == ResolveInit /\ ParseIdle /\ SelectIdle /\ DownloadIdle /\ CliIdle /\ NameIdle
NextResolve ==
    \/ ResolveStart /\ UNCHANGED <<parseVars, selectVars, downloadVars, cliVars, nameVars>>
    \/ RpcReject /\ UNCHANGED <<parseVars, selectVars, downloadVars, cliVars, nameVars>>
    \/ RpcNotOk /\ UNCHANGED <<parseVars, selectVars, downloadVars, cliVars, nameVars>>
    \/ RpcOk /\ UNCHANGED <<parseVars, selectVars, downloadVars, cliVars, nameVars>>
    \/ RpcBadJson /\ UNCHANGED <<parseVars, selectVars, downloadVars, cliVars, nameVars>>
    \/ RpcJson /\ UNCHANGED <<parseVars, selectVars, downloadVars, cliVars, nameVars>>
SpecResolve == InitResolve /\ [][NextResolve]_vars

\* ==================================================================== claims

\* ---- C1 --------------------------------------------------------------------
\* Nothing this call made is at the destination or at the temporary path (a file that
\* was at the destination before the call does not count).
NoPartial(c) == dir[Tmp(c)] = "none" /\ dir[Out(c)] \in {"none", "old"}

\* C1: at the moment downloadFile returns an error to its caller, neither outPath nor
\* outPath + '.part' exists, for every failure point and every interleaving of the
\* write stream's open with the failure and the cleanup removal.
C1_NoPartialOnError ==
    [][\A c \in Calls : (pc[c] = "throw" /\ pc'[c] = "done_err") => NoPartial(c)']_vars

\* ---- C2 --------------------------------------------------------------------
BodyContent(c) == [k \in 1..Len(body[c]) |-> [c |-> c, n |-> body[c][k]]]

\* C2 as stated: on success outPath exists, outPath + '.part' does not, and with a
\* declared content-length the byte count of outPath equals it.
C2_Original ==
    \A c \in Calls : pc[c] = "done_ok" =>
        /\ dir[Out(c)] # "none"
        /\ dir[Tmp(c)] = "none"
        /\ total[c] # 0 => Bytes(data[dir[Out(c)]]) = total[c]

\* C2 amended: on success outPath exists, outPath + '.part' does not, and outPath holds
\* exactly the chunks the body delivered before its end, in order, so its byte count is
\* the sum of their lengths and equals the bytes-transferred counter (the declared
\* content-length is not compared with it).
C2_SuccessLeavesBody ==
    \A c \in Calls : pc[c] = "done_ok" =>
        /\ dir[Out(c)] # "none"
        /\ dir[Tmp(c)] = "none"
        /\ data[dir[Out(c)]] = BodyContent(c)
        /\ Bytes(data[dir[Out(c)]]) = Sum(body[c])
        /\ Bytes(data[dir[Out(c)]]) = downloaded[c]

\* A call that replaced an earlier file at the destination with a two-chunk body of
\* exactly the declared length has returned.
C2_Witness ==
    /\ pc["A"] = "done_ok" /\ Len(body["A"]) = 2 /\ total["A"] = 3
    /\ Sum(body["A"]) = 3 /\ dir[Out("A")] = "A"

\* ---- C3 --------------------------------------------------------------------
\* C3: when the process terminates in the middle of a transfer (the temporary file
\* created, the rename not yet done), no outPath + '.part' remains.
C3_TerminationCleansUp ==
    \A c \in Calls :
        (~alive /\ pc[c] \in {"reading", "writing", "ending"} /\ ws[c].st = "open")
            => dir[Tmp(c)] = "none"


\* ---- C4 --------------------------------------------------------------------
\* C4: given a Bastyon post URL, the CLI resolves the post through the Bastyon RPC
\* before any metadata request, and the metadata request goes to the embedded video's
\* host, not to the Bastyon host.
C4_PostResolvedBeforeMeta ==
    \A n \in 1..Len(netLog) :
        (netLog[n].kind = "meta" /\ Truthy(extractBastyonPostTx(input))) =>
            /\ \E j \in 1..(n - 1) : netLog[j].kind = "rpc"
            /\ netLog[n].host # Str(<<"https://", input.host>>)

\* ---- C10 -------------------------------------------------------------------
UrlParts == FilterBoolean(input.path)
OccursAt(parts, p, i) == i + Len(p) - 1 <= Len(parts) /\ SubSeq(parts, i, i + Len(p) - 1) = p
Occurs(parts, p) == \E i \in 1..Len(parts) : OccursAt(parts, p, i)
FollowedAt(parts, p, i) == OccursAt(parts, p, i) /\ i + Len(p) <= Len(parts)
Followed(parts, p) == \E i \in 1..Len(parts) : FollowedAt(parts, p, i)
FirstIn(S) == CHOOSE k \in S : \A k2 \in S : k <= k2
LastOrNull(parts) == IF Len(parts) > 0 THEN Str(<<parts[Len(parts)]>>) ELSE NullV

\* C10 as stated, for a URL with a non-empty authority: the host is https://<authority>
\* and the id is the segment that follows the first pattern (in the fixed order) whose
\* segments occur contiguously in the path; the last segment when no pattern occurs,
\* null when the path has no segments.
C10_Original ==
    (ref.done /\ input.k = "url" /\ input.host # "") =>
        LET parts == UrlParts
            occ == {k \in 1..Len(patterns) : Occurs(parts, patterns[k])}
        IN /\ ref.host = Str(<<"https://", input.host>>)
           /\ IF occ = {} THEN ref.id = LastOrNull(parts)
              ELSE LET p == patterns[FirstIn(occ)]
                       i0 == FirstIn({i \in 1..Len(parts) : OccursAt(parts, p, i)})
                   IN i0 + Len(p) <= Len(parts) /\ ref.id = Str(<<parts[i0 + Len(p)]>>)

\* C10 amended: for a generic absolute URL the host is https://<authority> (null when
\* the authority is empty) and the id is the segment that follows the first pattern,
\* in the fixed order /w, /videos/watch, /videos/embed, /api/v1/videos, whose segments
\* occur contiguously in the path AND are followed by a further segment; when no
\* pattern is so followed the id is the last path segment, and null when the path has
\* no segments.
C10_UrlParse ==
    (ref.done /\ input.k = "url") =>
        LET parts == UrlParts
            fol == {k \in 1..Len(patterns) : Followed(parts, patterns[k])}
        IN /\ ref.host = (IF input.host = "" THEN NullV ELSE Str(<<"https://", input.host>>))
           /\ IF fol = {} THEN ref.id = LastOrNull(parts)
              ELSE LET p == patterns[FirstIn(fol)]
                       i0 == FirstIn({i \in 1..Len(parts) : FollowedAt(parts, p, i)})
                   IN ref.id = Str(<<parts[i0 + Len(p)]>>)

\* An http URL whose path ends in /w after /videos/watch/id1 has been parsed: the
\* unfollowed /w is passed over and the id comes from /videos/watch.
C10_Witness ==
    /\ ref.done /\ input.k = "url" /\ input.scheme = "http" /\ input.host = "videos.example"
    /\ input.path = <<"videos", "watch", "id1", "w">>
    /\ ref.id = Str(<<"id1">>)
    /\ ref.host = Str(<<"https://", "videos.example">>)

\* ---- C5 --------------------------------------------------------------------
VideoAll == FilterKind(buildCandidates(meta), [quality |-> 0, audioOnly |-> FALSE])
KnownLeq(all, q) == {i \in 1..Len(all) : all[i].height # 0 /\ all[i].height <= q}
KnownGt(all, q) == {i \in 1..Len(all) : all[i].height # 0 /\ all[i].height > q}

\* C5: with audioOnly false and a max-height constraint q over a list with a video
\* candidate: the result is the earliest (in score order) candidate of greatest known
\* height <= q if there is one; else one of smallest known height > q if there is one;
\* else the top-scored video candidate.
C5_MaxHeight ==
    (chosen.done /\ ~opts.audioOnly /\ opts.quality # 0 /\ ~BuildThrows(meta)
        /\ Len(VideoAll) > 0) =>
        LET all == VideoAll
            q == opts.quality
            leq == KnownLeq(all, q)
            gt == KnownGt(all, q)
        IN IF leq # {}
           THEN \E i \in leq :
                    /\ chosen.r = Cand(all[i])
                    /\ \A j \in leq : all[j].height <= all[i].height
                    /\ \A j \in leq : j < i => all[j].height # all[i].height
           ELSE IF gt # {}
           THEN \E i \in gt :
                    /\ chosen.r = Cand(all[i])
                    /\ \A j \in gt : all[j].height >= all[i].height
           ELSE chosen.r = Cand(all[1])

\* Two different video candidates of height 720 = q and one above q: the earlier of
\* the two in score order was returned.
C5_Witness ==
    /\ chosen.done /\ ~opts.audioOnly /\ opts.quality = 720 /\ ~BuildThrows(meta)
    /\ LET all == VideoAll
       IN /\ KnownGt(all, 720) # {}
          /\ \E i, j \in KnownLeq(all, 720) :
                /\ i < j /\ all[i] # all[j]
                /\ all[i].height = 720 /\ all[j].height = 720
                /\ chosen.r = Cand(all[i])

\* ---- C6 --------------------------------------------------------------------
\* C6: selectFile never throws; it returns null exactly when no flattened candidate has
\* the requested kind; a returned candidate is a flattened candidate of the requested
\* kind with a non-empty fileUrl.
C6_NullIffNoneNeverThrows ==
    chosen.done =>
        IF chosen.r = Thrown THEN FALSE
        ELSE LET flat == Flatten(meta)
                 ofKind == {i \in 1..Len(flat) : flat[i].kind = RequestedKind(opts)}
             IN /\ (chosen.r = NullV) <=> (ofKind = {})
                /\ chosen.r # NullV =>
                      \E i \in ofKind : chosen.r = Cand(flat[i]) /\ flat[i].fileUrl # NullV

\* ---- C7 --------------------------------------------------------------------
\* C7: selectFile never returns a non-https candidate when an https candidate of the
\* requested kind exists.
C7_HttpsPreferred ==
    (chosen.done /\ chosen.r # Thrown /\ chosen.r # NullV) =>
        LET flat == Flatten(meta)
        IN (\E i \in 1..Len(flat) : flat[i].kind = RequestedKind(opts) /\ IsHttps(flat[i]))
                => IsHttps(chosen.r.c)

\* ---- C8 --------------------------------------------------------------------
\* C8: in buildCandidates' order, of two candidates of the same container type that
\* differ in transport security, the https one comes first, whatever their heights.
C8_HttpsSortsFirst ==
    (chosen.done /\ ~BuildThrows(meta)) =>
        LET cs == buildCandidates(meta)
        IN \A i, j \in 1..Len(cs) :
              (i < j /\ IsMp4(cs[i]) = IsMp4(cs[j]) /\ IsHttps(cs[i]) # IsHttps(cs[j]))
                  => IsHttps(cs[i])

\* ---- C9 --------------------------------------------------------------------
Tagged(fs, list) == [i \in 1..Len(fs) |-> [d |-> fs[i], list |-> list]]
RECURSIVE TaggedPlaylists(_)
TaggedPlaylists(pls) ==
    IF pls = <<>> THEN <<>>
    ELSE Tagged(Head(pls).files, "files") \o Tagged(Head(pls).audioFiles, "audioFiles")
            \o TaggedPlaylists(Tail(pls))
ReadOrder(m) ==
    Tagged(m.files, "top") \o TaggedPlaylists(m.streamingPlaylists)
        \o Tagged(m.previewFiles, "fallback")
WithUrl(m) ==
    SelectSeq(ReadOrder(m), LAMBDA e : ~e.d.nil /\
        (e.d.fileUrl # NullV \/ e.d.url # NullV \/ e.d.src # NullV))

\* C9: every descriptor with a URL that carries the audio-only flag, from whichever
\* list, and every one read from a playlist's audio-only list becomes a candidate of
\* kind audio; every other descriptor with a URL becomes one of kind video.
C9_KindByFlagOrList ==
    (chosen.done /\ ~BuildThrows(meta)) =>
        LET src == WithUrl(meta)
            flat == Flatten(meta)
        IN /\ Len(flat) = Len(src)
           /\ \A i \in 1..Len(src) :
                flat[i].kind = (IF src[i].d.audioOnly \/ src[i].list = "audioFiles"
                                THEN "audio" ELSE "video")

\* ---- C11 -------------------------------------------------------------------
\* The field of an internal-scheme input that the string does not carry.
LacksHost(in) == in.k = "peertube" /\ in.rest[1] = ""
LacksId(in) == in.k = "peertube" /\ (Len(in.rest) < 2 \/ in.rest[2] = "")
HasScheme(h) == h.t = "str" /\ h.v # <<>> /\ Head(h.v) \in {"http://", "https://"}

\* C11 as stated: parseInput returns for every input string; an empty or unparseable
\* input yields null for both fields, an internal-scheme input lacking a host or an id
\* yields null for that field, and a non-null host starts with a scheme.
C11_Original ==
    ref.done =>
        /\ (input.k \in {"empty", "garbage"} => ref.host = NullV /\ ref.id = NullV)
        /\ (LacksHost(input) => ref.host = NullV)
        /\ (LacksId(input) => ref.id = NullV)
        /\ (ref.host # NullV => HasScheme(ref.host))

\* C11 amended: parseInput returns a {host, id} pair for every input string; an empty
\* or unparseable input yields null for both fields; an internal-scheme input lacking
\* a host yields a null host, and one lacking an id yields undefined (no second
\* segment) or the empty string (an empty second segment), never null: a falsy id in
\* either case; a non-null host always starts with a scheme.
C11_ParseFalsy ==
    ref.done =>
        /\ ref.host.t \in {"null", "str"} /\ ref.id.t \in {"null", "undefined", "str"}
        /\ (input.k \in {"empty", "garbage"} => ref.host = NullV /\ ref.id = NullV)
        /\ (LacksHost(input) => ref.host = NullV)
        /\ (LacksId(input) =>
                /\ ~Truthy(ref.id)
                /\ ref.id = IF Len(input.rest) < 2 THEN Undef ELSE Str(<<>>))
        /\ (input.k = "peertube" /\ ~LacksId(input) => ref.id = Str(<<input.rest[2]>>))
        /\ (ref.host # NullV => HasScheme(ref.host))

C11_Witness ==
    /\ ref.done /\ input.k = "peertube" /\ Len(input.rest) = 1
    /\ HasScheme(ref.host) /\ ref.id = Undef

\* ---- C12 -------------------------------------------------------------------
AllUnsafe(t) == t # <<>> /\ \A i \in 1..Len(t) : IsUnsafe(t[i].ch)

\* C12: the base name deriveOutputName builds holds no unsafe character and at most
\* NameLimit characters, it is "video" when nothing remains after stripping, and a title
\* of only unsafe characters with a video candidate whose URL has no extension yields
\* exactly "video.mp4".
C12_NameFromTitle ==
    outName.done =>
        /\ \A i \in 1..Len(outName.base) : ~IsUnsafe(outName.base[i].ch)
        /\ StrLen(outName.base) <= NameLimit
        /\ outName.base # <<>>
        /\ (/\ AllUnsafe(nameIn.meta.name)
            /\ nameIn.chosen.kind = "video" /\ urlExt(nameIn.chosen.fileUrl) = ""
            => outName.base = VideoWord /\ outName.ext = ".mp4")

\* ---- C13 -------------------------------------------------------------------
\* The decision the claim describes, read off the response body.
AcceptedShape(j) ==
    \/ j.t = "array"
    \/ j.t = "object" /\ j.data # NullV
PayloadOf(j) == IF j.t = "array" THEN j ELSE j.data
NonEmptyArray(d) == d.t = "array" /\ d.v # <<>>
FirstUrlField(d) == IF d.v[1].nil THEN Undef ELSE d.v[1].u
NamedOutcome(j) ==
    IF ~AcceptedShape(j) THEN Failure("unexpected")
    ELSE IF ~NonEmptyArray(PayloadOf(j)) THEN Failure("notfound")
    ELSE IF ~Truthy(FirstUrlField(PayloadOf(j))) THEN Failure("nourl")
    ELSE LET u == FirstUrlField(PayloadOf(j)).of
         IN IF ~Truthy(parseInput(u).host) \/ ~Truthy(parseInput(u).id)
            THEN Failure("unparsable")
            ELSE Reference(parseInput(u).host, parseInput(u).id, u)
ResolvedRef(r) == r.t = "ref" /\ Truthy(r.host) /\ Truthy(r.id)

\* C13 as stated: every completion of resolveBastyonPost for a non-empty identifier is
\* a Reference with host and id non-empty or one of five named errors (status,
\* unexpected response, post not found, no external video URL, unable to parse),
\* decided in that order; no other error outcome is possible.
C13_Original ==
    resolved.done /\ Truthy(txid) =>
        /\ \/ ResolvedRef(resolved.r)
           \/ /\ resolved.r.t = "error"
              /\ resolved.r.name \in {"status", "unexpected", "notfound", "nourl", "unparsable"}
        /\ (rpcBody = NoBody => resolved.r = Failure("status"))

\* C13 amended: every completion of resolveBastyonPost for a non-empty identifier is a
\* Reference with host and id non-empty, or one of the five named errors, or one of
\* three errors that pass through unnamed: the rejection of the RPC request itself, the
\* rejection of the JSON parse of a success response, and the URIError of decoding a
\* URL field that is not a valid percent-encoding. They are decided in this order:
\* request rejection; status error; JSON parse error; unexpected response; post not
\* found; no external video URL (field absent or empty); URI decoding error; unable to
\* parse. No other outcome is possible.
C13_ResolveOutcomes ==
    resolved.done /\ Truthy(txid) =>
        /\ \/ ResolvedRef(resolved.r)
           \/ /\ resolved.r.t = "error"
              /\ resolved.r.name \in {"network", "status", "json", "unexpected", "notfound",
                                      "nourl", "uri", "unparsable"}
        /\ (rpcBody = NoBody => resolved.r.t = "error"
                                /\ resolved.r.name \in {"network", "status", "json"})
        /\ (rpcBody # NoBody =>
                resolved.r =
                    IF /\ AcceptedShape(rpcBody) /\ NonEmptyArray(PayloadOf(rpcBody))
                       /\ Truthy(FirstUrlField(PayloadOf(rpcBody)))
                       /\ ~FirstUrlField(PayloadOf(rpcBody)).ok
                    THEN Failure("uri")
                    ELSE NamedOutcome(rpcBody))

C13_Witness ==
    /\ resolved.done /\ Truthy(txid) /\ ResolvedRef(resolved.r)
    /\ rpcBody.t = "object" /\ rpcBody.result = NullV /\ Len(rpcBody.data.v) = MaxPosts

\* ---- C14 -------------------------------------------------------------------
\* What a call owns: its locals, and the files at its two paths and behind its stream.
Other(c) == CHOOSE o \in Calls : o # c
Local(c) == <<pc[c], total[c], body[c], downloaded[c], ws[c], err[c], reports[c]>>
FileAt(p) == IF dir[p] = "none" THEN <<"absent">> ELSE <<"file", data[dir[p]]>>
StreamFile(c) == IF ws[c].ino = "none" THEN <<"absent">> ELSE <<"file", data[ws[c].ino]>>
Owned(c) == <<Local(c), FileAt(Out(c)), FileAt(Tmp(c)), StreamFile(c)>>

\* The outcome a call has when it runs alone: on success the destination holds its
\* body and the temporary path is gone.
SoloOutcome(c) ==
    pc[c] = "done_ok" =>
        dir[Out(c)] # "none" /\ dir[Tmp(c)] = "none" /\ data[dir[Out(c)]] = BodyContent(c)

\* Every step is one call's step, leaves everything the other call owns as it was, and
\* each call's outcome is what it is alone.
Independent ==
    /\ \A c \in Calls : Local(c)' # Local(c) => Owned(Other(c))' = Owned(Other(c))
    /\ \A c \in Calls : SoloOutcome(c)'

WithPart(p) == Path(p.base, p.parts + 1)

\* C14 as stated: two concurrent downloadFile calls with different destination paths
\* are independent, for every pair of distinct destination paths and every
\* interleaving.
C14_Original == [][Out("A") # Out("B") => Independent]_vars

\* C14 amended: two concurrent downloadFile calls are independent when their
\* destination paths are different and neither destination is the other's destination
\* followed by '.part' (the other call's temporary path).
C14_IndependentCalls ==
    [][(/\ Out("A") # Out("B")
        /\ Out("A") # WithPart(Out("B")) /\ Out("B") # WithPart(Out("A"))) => Independent]_vars

\* Both calls have succeeded after running interleaved, each with a two-chunk body.
C14_Witness ==
    /\ Out("A") = Path("d1", 0) /\ Out("B") = Path("d2", 0)
    /\ pc["A"] = "done_ok" /\ pc["B"] = "done_ok"
    /\ Len(body["A"]) = 2 /\ Len(body["B"]) = 2
    /\ body["A"] # body["B"]

\* ---- C15 -------------------------------------------------------------------
\* The chunks call c has written to the file behind its stream, in write order.
Written(c) ==
    IF ws[c].ino = "none" THEN <<>> ELSE SelectSeq(data[ws[c].ino], LAMBDA x : x.c = c)
IsPrefix(a, b) == Len(a) <= Len(b) /\ a = SubSeq(b, 1, Len(a))

\* C15: in the write loop at most one operation is outstanding: while a read is
\* outstanding every chunk read so far has been written, while a write is outstanding
\* it is the write of the one chunk read last, and the chunks written are always a
\* prefix of the chunks read, in the order they were read.
C15_OneOutstanding ==
    \A c \in Calls :
        /\ IsPrefix(Written(c), BodyContent(c))
        /\ (pc[c] \in {"reading", "ending"} /\ Len(body[c]) > 0 => Written(c) = BodyContent(c))
        /\ (pc[c] = "writing" => Len(Written(c)) = Len(body[c]) - 1)

C15_Witness ==
    /\ pc["A"] = "reading" /\ body["A"] = <<2, 1>>
    /\ Written("A") = <<[c |-> "A", n |-> 2], [c |-> "A", n |-> 1]>>

\* ---- C16 -------------------------------------------------------------------
\* The running totals of a sequence of chunk lengths.
PrefixSums(lens) == [k \in 1..Len(lens) |-> Sum(SubSeq(lens, 1, k))]
WrittenLens(c) == [k \in 1..Len(Written(c)) |-> Written(c)[k].n]

CounterInv ==
    \A c \in Calls :
        /\ downloaded[c] = Bytes(Written(c))
        /\ (pc[c] = "reading" => downloaded[c] = Sum(body[c]))
        /\ reports[c] = IF total[c] # 0 THEN PrefixSums(WrittenLens(c)) ELSE <<>>
        /\ (pc[c] = "done_ok" => data[dir[Out(c)]] = BodyContent(c))

CounterStep ==
    \A c \in Calls :
        downloaded'[c] # downloaded[c] =>
            /\ pc[c] = "writing" /\ pc'[c] = "reading"
            /\ Len(Written(c)') = Len(Written(c)) + 1
            /\ downloaded'[c] = downloaded[c] + body[c][Len(body[c])]

\* C16: the bytes-transferred counter grows exactly once per chunk, by the chunk's
\* length, in the step that completes the chunk's write and issues the next read, so
\* at every read it equals the total length of the chunks written; with a declared
\* content-length the counter is reported after every chunk, without one nothing is
\* reported and the same chunks reach the destination.
C16_CounterAndProgress == []CounterInv /\ [][CounterStep]_vars

C16_Witness ==
    /\ pc["A"] = "reading" /\ total["A"] = 3 /\ body["A"] = <<1, 2>>
    /\ downloaded["A"] = 3 /\ reports["A"] = <<1, 3>>

\* ---- C18 -------------------------------------------------------------------
\* C18: the file at the destination path changes in one step only, the rename, taken
\* after the end of the body was read, every chunk was written and the stream's end
\* has run; before it the destination is as it was, after it the destination holds the
\* whole body, never a proper prefix.
C18_DestinationOnlyByRename ==
    [][\A c \in Calls :
        FileAt(Out(c))' # FileAt(Out(c)) =>
            /\ pc[c] = "rename" /\ pc'[c] = "done_ok"
            /\ ws[c].st \in {"closed", "failed"}
            /\ Written(c) = BodyContent(c)
            /\ FileAt(Out(c))' = <<"file", BodyContent(c)>>]_vars

\* The stream has been ended after two chunks and the destination still holds the
\* file of an earlier run.
C18_Witness ==
    /\ pc["A"] = "rename" /\ ws["A"].st = "closed" /\ Len(body["A"]) = 2
    /\ dir[Out("A")] = "old" /\ dir[Tmp("A")] = "A"

\* ---- C19 -------------------------------------------------------------------
\* C19: when every issued operation settles, a started downloadFile call returns to its
\* caller (unless the process is terminated first), whatever the point at which the
\* write stream errors.
C19_CallReturns ==
    \A c \in Calls :
        pc[c] = "rm0" ~> (pc[c] \in {"done_ok", "done_err"} \/ ~alive)

\* The stream's open failed while the stream was being ended, and the call returned.
C19_Witness ==
    /\ pc["A"] = "done_err" /\ err["A"] = "rename" /\ ws["A"] = [st |-> "failed", ino |-> "none"]

\* ---- C20 -------------------------------------------------------------------
StillWriting(c) == pc[c] \in {"reading", "writing", "ending"} /\ ws[c].st = "open"

\* C20: with one destination for both calls, the temporary path stops naming the file
\* a call is still writing only by a step of the other call: its initial removal, its
\* cleanup removal or its rename; and a call that reaches its rename without its own
\* file at the temporary path fails or puts a file it did not write at the destination.
C20_SharedPartTaken ==
    [][\A c \in Calls :
        Out(c) = Out(Other(c)) =>
            /\ (StillWriting(c) /\ dir[Tmp(c)] = ws[c].ino /\ dir'[Tmp(c)] # ws[c].ino =>
                    /\ pc[Other(c)] \in {"rm0", "catch", "rename"}
                    /\ pc'[Other(c)] # pc[Other(c)])
            /\ (pc[c] = "rename" /\ pc'[c] # "rename" /\ dir[Tmp(c)] # ws[c].ino =>
                    pc'[c] = "catch" \/ dir'[Out(c)] # ws[c].ino)]_vars

\* Call A wrote its whole body to its own file and ended its stream, call B took the
\* shared temporary file away meanwhile: A's rename can only fail.
C20_Witness ==
    /\ Out("A") = Out("B")
    /\ pc["A"] = "rename" /\ ws["A"] = [st |-> "closed", ino |-> "A"] /\ Len(body["A"]) = 2
    /\ dir[Tmp("A")] = "none" /\ dir[Out("A")] # "A"

\* ---- C17 -------------------------------------------------------------------
Unresolved == ref.done /\ (~Truthy(ref.host) \/ ~Truthy(ref.id))
NoTransfer == \A k \in 1..Len(netLog) : netLog[k].kind # "transfer"

\* C17: with an unresolved reference (host or id null, undefined or empty) no metadata
\* request is issued, by main or by fetchVideoMeta called directly, and no selection,
\* transfer or file follows; and when selectFile returns no candidate no transfer is
\* issued.
C17_UnresolvedStops ==
    /\ Unresolved =>
        /\ netLog = <<>> /\ chosen = Pending /\ meta = MetaOf(<<>>, <<>>, <<>>, <<>>)
        /\ cliPc \in {"fetchMeta", "exit1"}
        /\ \A p \in Paths : dir[p] = "none"
    /\ (chosen # Pending /\ chosen.r.t # "cand") => NoTransfer /\ cliPc = "exit1"
    /\ (\A k \in 1..Len(netLog) : netLog[k].kind = "meta" =>
            Truthy(netLog[k].host) /\ Truthy(netLog[k].id))

\* fetchVideoMeta was called with the reference of 'peertube://videos.example/' (an
\* empty id) and threw before any request.
C17_Witness ==
    /\ input = [k |-> "peertube", rest |-> <<"videos.example", "">>]
    /\ Unresolved /\ cliPc = "exit1" /\ netLog = <<>>

====
